---- MODULE Spec2Model ----
(***************************************************************************)
(* A model of autodoc.py: the command line, the block parser               *)
(* (autodoclist.parse_file), the sort, and the renderer (write_toc,        *)
(* autodoc.write).  Text is modelled character by character: a Python str  *)
(* is a TLA+ string, and the three regular expressions, str.splitlines,    *)
(* str.split, str.replace, str.lower, int() and slicing are operators     *)
(* that compute what the Python operations compute.                        *)
(*                                                                         *)
(* Input texts hold no line boundary other than "\n" (str.splitlines would *)
(* also split on \r, \v, \f and a few more) and only printable ASCII.      *)
(***************************************************************************)
EXTENDS Integers, Sequences, FiniteSets, TLC

VARIABLES argv, fs, args, pc, fi, content, inside_autodoc, type, name,
          body, lines, autodocs, wi, out, status, err

vars == <<argv, fs, args, pc, fi, content, inside_autodoc, type, name,
          body, lines, autodocs, wi, out, status, err>>

(***************************************************************************)
(* Characters and strings                                                  *)
(***************************************************************************)

\* s[i] of Python with a 1-based index; "" stands for "past the end".
Ch(s, i) == IF i >= 1 /\ i <= Len(s) THEN SubSeq(s, i, i) ELSE ""

\* s[i-1:] of Python with a 1-based index i.
From(s, i) == SubSeq(s, i, Len(s))

\* The printable ASCII characters in code point order: 32..95 and 97..126
\* (code 96, the backquote, cannot be written in a TLA+ string and occurs
\* in no input of the model).
AsciiLow == " !\"#$%&'()*+,-./0123456789:;<=>?@ABCDEFGHIJKLMNOPQRSTUVWXYZ[\\]^_"

AsciiHigh == "abcdefghijklmnopqrstuvwxyz{|}~"

\* Index of character c in string s, 0 when it does not occur.
IndexIn(s, c) ==
    LET is == {i \in 1..Len(s) : SubSeq(s, i, i) = c}
    IN IF is = {} THEN 0 ELSE CHOOSE i \in is : TRUE

\* ord(c) for a printable ASCII character.
Ord(c) ==
    IF IndexIn(AsciiLow, c) > 0 THEN 31 + IndexIn(AsciiLow, c)
    ELSE 96 + IndexIn(AsciiHigh, c)

\* chr(n) for a printable ASCII code.
Chr(n) ==
    IF n <= 95 THEN SubSeq(AsciiLow, n - 31, n - 31)
    ELSE SubSeq(AsciiHigh, n - 96, n - 96)

\* The characters the regular expression class \s matches (ASCII ones a
\* TLA+ string can hold).
Whitespace == {" ", "\t", "\n", "\r", "\f"}

IsSpace(c) == c \in Whitespace

\* Length of the longest run of "*" in s starting at index i.
RECURSIVE StarRun(_, _)
StarRun(s, i) == IF Ch(s, i) = "*" THEN 1 + StarRun(s, i + 1) ELSE 0

\* Length of the longest run of non-whitespace characters (\S) from i.
RECURSIVE NonSpaceRun(_, _)
NonSpaceRun(s, i) ==
    IF Ch(s, i) # "" /\ ~IsSpace(Ch(s, i))
    THEN 1 + NonSpaceRun(s, i + 1) ELSE 0

\* Whether s has prefix p at index i.
HasAt(s, i, p) == i + Len(p) - 1 <= Len(s) /\ SubSeq(s, i, i + Len(p) - 1) = p

\* str.replace(old, new): every non-overlapping occurrence, left to right.
RECURSIVE Replace(_, _, _)
Replace(s, old, new) ==
    IF s = "" THEN ""
    ELSE IF HasAt(s, 1, old)
         THEN new \o Replace(From(s, Len(old) + 1), old, new)
         ELSE Ch(s, 1) \o Replace(From(s, 2), old, new)

\* Index of the first "\n" of s at or after i, 0 when there is none.
RECURSIVE NextNL(_, _)
NextNL(s, i) ==
    IF i > Len(s) THEN 0
    ELSE IF Ch(s, i) = "\n" THEN i ELSE NextNL(s, i + 1)

\* str.splitlines(True): the lines of s, each keeping its "\n".
RECURSIVE SplitLines(_)
SplitLines(s) ==
    IF s = "" THEN <<>>
    ELSE LET n == NextNL(s, 1)
         IN IF n = 0 THEN <<s>>
            ELSE <<SubSeq(s, 1, n)>> \o SplitLines(From(s, n + 1))

\* str.split('\n'): the pieces between line breaks; always at least one.
RECURSIVE Split(_)
Split(s) ==
    LET n == NextNL(s, 1)
    IN IF n = 0 THEN <<s>>
       ELSE <<SubSeq(s, 1, n - 1)>> \o Split(From(s, n + 1))

\* The concatenation of a sequence of strings.
RECURSIVE Join(_)
Join(ss) == IF ss = <<>> THEN "" ELSE Head(ss) \o Join(Tail(ss))

\* str.lower() on ASCII.
RECURSIVE Lower(_)
Lower(s) ==
    IF s = "" THEN ""
    ELSE LET c == Ch(s, 1)
         IN (IF Ord(c) >= 65 /\ Ord(c) <= 90 THEN Chr(Ord(c) + 32) ELSE c)
            \o Lower(From(s, 2))

\* a < b on Python strings: lexicographic by code point.
RECURSIVE StrLess(_, _)
StrLess(a, b) ==
    IF b = "" THEN FALSE
    ELSE IF a = "" THEN TRUE
    ELSE IF Ch(a, 1) = Ch(b, 1) THEN StrLess(From(a, 2), From(b, 2))
    ELSE Ord(Ch(a, 1)) < Ord(Ch(b, 1))

(***************************************************************************)
(* The three regular expressions of autodoclist.__init__                   *)
(***************************************************************************)

NoMatch == [ok |-> FALSE, type |-> "", name |-> "", end |-> 0]

\* One way for head_regex to match at index p of s once \s? has been
\* decided (q is where \*{3,} starts) and \*{3,} has taken k stars: then
\* (.) is any character but a line break, then "*", a space, (\S*) greedy
\* (it must give back nothing, since the next character must be a space),
\* a space, and \** greedy.  end is the index after the match.
HeadTry(s, q, k) ==
    LET n0 == q + k + 3
        m  == NonSpaceRun(s, n0)
    IN IF /\ k >= 3
          /\ Ch(s, q + k) \notin {"", "\n"}
          /\ Ch(s, q + k + 1) = "*"
          /\ Ch(s, q + k + 2) = " "
          /\ Ch(s, n0 + m) = " "
       THEN [ok |-> TRUE, type |-> Ch(s, q + k),
             name |-> SubSeq(s, n0, n0 + m - 1),
             end |-> n0 + m + 1 + StarRun(s, n0 + m + 1)]
       ELSE NoMatch

\* head_regex  ^/\*\s?\*{3,}(.)\* (\S*) \**  tried at index p (the caller
\* checks ^).  \s? takes a whitespace character when there is one (without
\* it \*{3,} would face that character and fail); \*{3,} is greedy and
\* backtracks from the whole run of stars down to 3.
HeadMatchAt(s, p) ==
    IF ~HasAt(s, p, "/*") THEN NoMatch
    ELSE LET q  == IF IsSpace(Ch(s, p + 2)) THEN p + 3 ELSE p + 2
             r  == StarRun(s, q)
             ks == {k \in 3..r : HeadTry(s, q, k).ok}
         IN IF ks = {} THEN NoMatch
            ELSE HeadTry(s, q, CHOOSE k \in ks : \A j \in ks : j <= k)

\* ^ under re.MULTILINE: the start of the string or just after a "\n".
AtLineStart(s, p) == p = 1 \/ Ch(s, p - 1) = "\n"

\* head_regex.search(s): the leftmost match.
HeadSearch(s) ==
    LET ps == {p \in 1..Len(s) : AtLineStart(s, p) /\ HeadMatchAt(s, p).ok}
    IN IF ps = {} THEN NoMatch
       ELSE HeadMatchAt(s, CHOOSE p \in ps : \A j \in ps : p <= j)

\* tail_regex.match(line):  ^\*{3,}
TailMatch(line) == StarRun(line, 1) >= 3

\* body_regex.match(line):  ^\*{1,}(.*$\n)  on one line of splitlines(True).
\* The stars are taken greedily, .* takes the rest up to the line break,
\* which must be there.
BodyMatch(line) == StarRun(line, 1) >= 1 /\ Ch(line, Len(line)) = "\n"

\* group(1) of body_regex on a line it matches: the line without its stars,
\* with its line break.
\* The group of the body pattern without its line break.
BodyGroupNoBreak(line) == SubSeq(line, StarRun(line, 1) + 1, Len(line) - 1)

BodyGroup(line) == From(line, StarRun(line, 1) + 1)

(***************************************************************************)
(* The command line                                                        *)
(***************************************************************************)

\* The line width when -l is not given.
DefaultWidth == 78

\* The module-level dictionary args.
DefaultArgs ==
    [i |-> FALSE, o |-> FALSE, u |-> FALSE, l |-> DefaultWidth,
     c |-> FALSE, f |-> FALSE, I |-> FALSE, infile |-> <<>>]

\* The option letters of the getopt string "ioul:cfI"; l takes a value.
ShortOpts == {"i", "o", "u", "l", "c", "f", "I"}

OptsWithArg == {"l"}

\* getopt's do_shorts on one token without its "-": the letters of the
\* token in turn; a letter that takes a value takes the rest of the token,
\* or the next token when nothing is left of this one.
RECURSIVE DoShorts(_, _, _)
DoShorts(opts, optstring, rest) ==
    IF optstring = "" THEN [error |-> FALSE, opts |-> opts, files |-> rest]
    ELSE LET opt == Ch(optstring, 1)
             more == From(optstring, 2)
         IN IF opt \notin ShortOpts
            THEN [error |-> TRUE, opts |-> opts, files |-> rest]
            ELSE IF opt \in OptsWithArg
            THEN IF more = ""
                 THEN IF rest = <<>>
                      THEN [error |-> TRUE, opts |-> opts, files |-> rest]
                      ELSE [error |-> FALSE,
                            opts |-> Append(opts, <<"-" \o opt, Head(rest)>>),
                            files |-> Tail(rest)]
                 ELSE [error |-> FALSE,
                       opts |-> Append(opts, <<"-" \o opt, more>>),
                       files |-> rest]
            ELSE DoShorts(Append(opts, <<"-" \o opt, "">>), more, rest)

\* getopt.getopt(sys.argv[1:], "ioul:cfI"): options are read up to the
\* first token that is not an option; error stands for GetoptError (there
\* are no long options, so every "--x" token is one).
RECURSIVE GetOpt(_, _)
GetOpt(opts, av) ==
    IF av = <<>> \/ Ch(Head(av), 1) # "-" \/ Head(av) = "-"
    THEN [error |-> FALSE, opts |-> opts, files |-> av]
    ELSE IF Head(av) = "--"
    THEN [error |-> FALSE, opts |-> opts, files |-> Tail(av)]
    ELSE IF HasAt(Head(av), 1, "--")
    THEN [error |-> TRUE, opts |-> opts, files |-> Tail(av)]
    ELSE LET d == DoShorts(opts, From(Head(av), 2), Tail(av))
         IN IF d.error THEN d ELSE GetOpt(d.opts, d.files)

Digits == "0123456789"

RECURSIVE AllDigits(_)
AllDigits(s) ==
    s = "" \/ (IndexIn(Digits, Ch(s, 1)) > 0 /\ AllDigits(From(s, 2)))

\* The value of a string of decimal digits.
RECURSIVE DigitsValue(_)
DigitsValue(s) ==
    IF s = "" THEN 0
    ELSE 10 * DigitsValue(SubSeq(s, 1, Len(s) - 1))
         + (IndexIn(Digits, Ch(s, Len(s))) - 1)

\* Whether int(s) returns (otherwise it raises ValueError): an optional
\* sign and at least one digit.  (The values of the model hold no blanks
\* or underscores, which int() also allows in places.)
IsInt(s) ==
    LET d == IF Ch(s, 1) \in {"+", "-"} THEN From(s, 2) ELSE s
    IN d # "" /\ AllDigits(d)

\* int(s) where IsInt(s).
ParseInt(s) ==
    IF Ch(s, 1) = "-" THEN 0 - DigitsValue(From(s, 2))
    ELSE IF Ch(s, 1) = "+" THEN DigitsValue(From(s, 2))
    ELSE DigitsValue(s)

\* The loop of parse_args over the options: raised is true when int(val)
\* raised ValueError, which ends the loop.
RECURSIVE ApplyOpts(_, _)
ApplyOpts(a, opts) ==
    IF opts = <<>> THEN [args |-> a, raised |-> FALSE]
    ELSE LET opt == Head(opts)[1]
             val == Head(opts)[2]
         IN IF opt = "-l" /\ ~IsInt(val) THEN [args |-> a, raised |-> TRUE]
            ELSE ApplyOpts(
                   [a EXCEPT !.i = (opt = "-i") \/ @,
                             !.o = (opt = "-o") \/ @,
                             !.u = (opt = "-u") \/ @,
                             !.l = IF opt = "-l" THEN ParseInt(val) ELSE @,
                             !.c = (opt = "-c") \/ @,
                             !.f = (opt = "-f") \/ @,
                             !.I = (opt = "-I") \/ @],
                   Tail(opts))

\* What print_usage prints.
UsageText ==
    "Usage: autodoc.py [option] file...\n"
    \o "-i    : Process only INTERNAL (i) autodocs\n"
    \o "-o    : Process only OBSOLETE (o) autodocs\n"
    \o "-u    : Process FUTURE (f) autodocs\n"
    \o "-lnum : Set line length to num (default 78)\n"
    \o "-c    : Do not convert \\* to /* and *\\ to */\n"
    \o "-f    : No form feeds between entries\n"
    \o "-I    : Do not output table of contents before entries\n"
    \o "file  : One or more input files\n"

(***************************************************************************)
(* The renderer                                                            *)
(***************************************************************************)

\* print_form_feed ignoring -f.
FormFeedAlways(a) == "\f"

\* What print_form_feed writes.
FormFeed(a) == IF ~a.f THEN "\f" ELSE ""

\* s[:n] of Python, for any integer n.
PySliceTo(s, n) ==
    LET e == IF n >= 0 THEN n ELSE Len(s) + n
    IN SubSeq(s, 1, IF e > Len(s) THEN Len(s) ELSE IF e < 0 THEN 0 ELSE e)

\* s[n:] starting one character late.
PySliceFromLate(s, n) ==
    LET b == IF n >= 0 THEN n ELSE Len(s) + n
    IN SubSeq(s, (IF b < 0 THEN 0 ELSE b) + 2, Len(s))

\* s[n:] of Python, for any integer n.
PySliceFrom(s, n) ==
    LET b == IF n >= 0 THEN n ELSE Len(s) + n
    IN SubSeq(s, (IF b < 0 THEN 0 ELSE b) + 1, Len(s))

\* WriteLine with the comparison of the boundary wrong: a line of exactly
\* width characters is not split.
WriteLineSplitAbove(line, width) ==
    (IF Len(line) <= width THEN line
     ELSE PySliceTo(line, width - 1) \o "\n" \o PySliceFrom(line, width - 1))
    \o "\n"

\* What the loop body of autodoc.write writes for one line of lines[:-1].
WriteLine(line, width) ==
    (IF Len(line) < width THEN line
     ELSE PySliceTo(line, width - 1) \o "\n" \o PySliceFrom(line, width - 1))
    \o "\n"

\* WriteLines joining the lines with line breaks instead of ending each
\* with one: the final line gets no line break.
RECURSIVE WriteLinesJoined(_, _)
WriteLinesJoined(ls, width) ==
    IF ls = <<>> THEN ""
    ELSE IF Len(ls) = 1
    THEN SubSeq(WriteLine(Head(ls), width), 1, Len(WriteLine(Head(ls), width)) - 1)
    ELSE WriteLine(Head(ls), width) \o WriteLinesJoined(Tail(ls), width)

RECURSIVE WriteLines(_, _)
WriteLines(ls, width) ==
    IF ls = <<>> THEN ""
    ELSE WriteLine(Head(ls), width) \o WriteLines(Tail(ls), width)

\* What autodoc.write writes for one entry.
Write(doc, a) ==
    LET ls == Split(doc.body)
    IN doc.name \o "\n"
       \o WriteLines(SubSeq(ls, 1, Len(ls) - 1), a.l)
       \o ls[Len(ls)]
       \o FormFeed(a)

\* What the loop of write_toc writes: one write_toc_entry per entry.
RECURSIVE TocEntries(_)
TocEntries(docs) ==
    IF docs = <<>> THEN ""
    ELSE Head(docs).name \o "\n" \o TocEntries(Tail(docs))

\* write_toc without the blank line after its header line.
WriteTocNoBlankLine(docs, a) ==
    "TABLE OF CONTENTS\n" \o TocEntries(docs) \o "\n\n" \o FormFeed(a)

\* What write_toc writes.
WriteToc(docs, a) ==
    "TABLE OF CONTENTS\n\n" \o TocEntries(docs) \o "\n\n" \o FormFeed(a)

\* __lt__ comparing the names as they are, without lower().
LtCaseSensitive(x, y) == StrLess(x.name, y.name)

\* autodoc.__lt__
Lt(x, y) == StrLess(Lower(x.name), Lower(y.name))

\* One insertion of a stable sort that compares with __lt__ only: x goes
\* before the first element that is greater than it.
RECURSIVE InsertSorted(_, _)
InsertSorted(sorted, x) ==
    IF sorted = <<>> THEN <<x>>
    ELSE IF Lt(x, Head(sorted)) THEN <<x>> \o sorted
    ELSE <<Head(sorted)>> \o InsertSorted(Tail(sorted), x)

RECURSIVE SortFrom(_, _)
SortFrom(sorted, rest) ==
    IF rest = <<>> THEN sorted
    ELSE SortFrom(InsertSorted(sorted, Head(rest)), Tail(rest))

\* list.sort() on the autodocs (a stable sort).
SortDocs(docs) == SortFrom(<<>>, docs)

(***************************************************************************)
(* The inputs of the model: command lines and files                        *)
(***************************************************************************)

\* Most blocks of a generated file (filter inputs).
MaxBlocks == 2

\* Most lines of a generated file (free-form inputs).
MaxLines == 4

\* Most entries of a two-file input (sort inputs).
MaxEntries == 3

\* Most body lines of the block of a render input.
MaxBody == 2

\* All sequences over S of length lo..hi.
SeqsOf(S, lo, hi) == UNION {[1..n -> S] : n \in lo..hi}

\* A header line with classification character t and name n.
HeaderLine(t, n) == "/****" \o t \o "* " \o n \o " ***\n"

\* A trailer line.
TrailerLine == "***\n"

RECURSIVE BodyLinesOf(_)
BodyLinesOf(texts) ==
    IF texts = <<>> THEN ""
    ELSE "*" \o Head(texts) \o "\n" \o BodyLinesOf(Tail(texts))

\* A well-formed block: header, one body line per text, trailer.
Block(t, n, texts) == HeaderLine(t, n) \o BodyLinesOf(texts) \o TrailerLine

\* The text of the first scenario of the specification.
FooText ==
    "/* ***** Foo ****\n*   first line\n*   second line\n***** */\n"

Classes == {"*", "i", "o", "f", "x"}

PositionNames == <<"Foo", "bar", "Zed", "qux">>

\* Filter inputs: every subset of -i -o -u, one file of 1..MaxBlocks
\* well-formed blocks of every classification.
RECURSIVE ClassBlocks(_, _)
ClassBlocks(ts, k) ==
    IF k > Len(ts) THEN ""
    ELSE Block(ts[k], PositionNames[k], <<" text">>) \o ClassBlocks(ts, k + 1)

FlagTokens(S) ==
    (IF "i" \in S THEN <<"-i">> ELSE <<>>)
    \o (IF "o" \in S THEN <<"-o">> ELSE <<>>)
    \o (IF "u" \in S THEN <<"-u">> ELSE <<>>)
    \o (IF "c" \in S THEN <<"-c">> ELSE <<>>)
    \o (IF "f" \in S THEN <<"-f">> ELSE <<>>)
    \o (IF "I" \in S THEN <<"-I">> ELSE <<>>)

FilterInputs ==
    {[argv |-> FlagTokens(S) \o <<"a.c">>, fs |-> ("a.c" :> ClassBlocks(ts, 1))] :
        S \in SUBSET {"i", "o", "u"}, ts \in SeqsOf(Classes, 1, MaxBlocks)}

\* Free-form inputs: one file made of up to MaxLines lines of a vocabulary:
\* a header, a header without a name, a body line, a trailer, a line that
\* is none of these, and a body line that lacks its line break.
LineVocab ==
    {HeaderLine("*", "Foo"), HeaderLine("*", ""), "*x\n", TrailerLine, "y\n", "*z"}

ShapeInputs ==
    {[argv |-> <<"a.c">>, fs |-> ("a.c" :> Join(ls))] :
        ls \in SeqsOf(LineVocab, 0, MaxLines)}

\* Sort inputs: two files; the first block is in a.c and the others in
\* b.c; the body of the k-th block is the digit k.
SortNames == {"apple", "Zebra", "Apple", "b"}

RECURSIVE NamedBlocks(_, _, _)
NamedBlocks(ns, k, hi) ==
    IF k > hi THEN ""
    ELSE Block("*", ns[k], <<Chr(48 + k)>>) \o NamedBlocks(ns, k + 1, hi)

SortInputs ==
    {[argv |-> FlagTokens(S) \o <<"a.c", "b.c">>,
      fs |-> ("a.c" :> NamedBlocks(ns, 1, 1) \o "between\n")
             @@ ("b.c" :> NamedBlocks(ns, 2, Len(ns)))] :
        S \in {{}, {"f"}, {"I"}}, ns \in SeqsOf(SortNames, 1, MaxEntries)}

\* Render inputs: line widths around the lengths of the body lines, with
\* and without form feeds and table of contents.
BodyTexts == {"", "abc", "abcd", "0123456789ABCDE"}

WidthTokens == {<<>>, <<"-l1">>, <<"-l4">>, <<"-l", "10">>, <<"-l0">>, <<"-l-3">>}

RenderInputs ==
    {[argv |-> w \o FlagTokens(S) \o <<"a.c">>,
      fs |-> ("a.c" :> Block("*", "Foo", texts))] :
        w \in WidthTokens, S \in SUBSET {"f", "I"},
        texts \in SeqsOf(BodyTexts, 0, MaxBody)}

\* Escape inputs: body lines holding the two escapes, with and without -c.
EscapeTexts == {"\\*text*\\", " a\\*\\ *\\*", "\\\\**\\\\"}

EscapeInputs ==
    {[argv |-> FlagTokens(S) \o <<"a.c">>,
      fs |-> ("a.c" :> Block("*", "Foo", <<t>>))] :
        S \in SUBSET {"c"}, t \in EscapeTexts}

\* Command lines that are wrong or unusual, and files that do not exist.
OddArgvs ==
    {<<>>, <<"-x", "a.c">>, <<"-i">>, <<"-labc", "a.c">>, <<"-l">>,
     <<"-l", "a.c">>, <<"--help", "a.c">>, <<"-ix", "a.c">>, <<"-l5x", "a.c">>,
     <<"-l", "">>, <<"-iou", "a.c">>, <<"--", "a.c">>, <<"-">>, <<"a.c", "-i">>,
     <<"-fI", "a.c">>, <<"a.c">>, <<"a.c", "a.c">>, <<"nofile.c">>,
     <<"a.c", "nofile.c">>, <<"nofile.c", "a.c">>, <<"-ofl+7", "a.c">>}

OddInputs == {[argv |-> av, fs |-> ("a.c" :> FooText)] : av \in OddArgvs}

Inputs ==
    FilterInputs \cup ShapeInputs \cup SortInputs \cup RenderInputs
    \cup EscapeInputs \cup OddInputs

(***************************************************************************)
(* The program                                                             *)
(***************************************************************************)

Init ==
    /\ \E inp \in Inputs : argv = inp.argv /\ fs = inp.fs
    /\ args = DefaultArgs
    /\ pc = "args"
    /\ fi = 1
    /\ content = ""
    /\ inside_autodoc = FALSE
    /\ type = ""
    /\ name = ""
    /\ body = ""
    /\ lines = <<>>
    /\ autodocs = <<>>
    /\ wi = 1
    /\ out = ""
    /\ status = 0
    /\ err = ""

\* parse_args returns False (GetoptError, or no file): __main__ prints the
\* usage text and exits with status 1.
ParseArgsFail ==
    /\ pc = "args"
    /\ LET g == GetOpt(<<>>, argv)
       IN /\ g.error \/ (~ApplyOpts(args, g.opts).raised /\ g.files = <<>>)
          /\ args' = IF g.error THEN args ELSE ApplyOpts(args, g.opts).args
    /\ out' = out \o UsageText
    /\ status' = 1
    /\ pc' = "exit"
    /\ UNCHANGED <<argv, fs, fi, content, inside_autodoc, type, name, body,
                   lines, autodocs, wi, err>>

\* int(val) raises ValueError in parse_args: nothing catches it, the
\* interpreter prints a traceback on stderr and exits with status 1.
ParseArgsRaise ==
    /\ pc = "args"
    /\ LET g == GetOpt(<<>>, argv)
       IN /\ ~g.error
          /\ ApplyOpts(args, g.opts).raised
          /\ args' = ApplyOpts(args, g.opts).args
    /\ err' = "ValueError"
    /\ status' = 1
    /\ pc' = "exit"
    /\ UNCHANGED <<argv, fs, fi, content, inside_autodoc, type, name, body,
                   lines, autodocs, wi, out>>

\* parse_args returns True: the options are in args, and __main__ makes
\* the list and starts its loop over the files.
ParseArgsOk ==
    /\ pc = "args"
    /\ LET g == GetOpt(<<>>, argv)
       IN /\ ~g.error
          /\ ~ApplyOpts(args, g.opts).raised
          /\ g.files # <<>>
          /\ args' = [ApplyOpts(args, g.opts).args EXCEPT !.infile = g.files]
    /\ pc' = "file"
    /\ UNCHANGED <<argv, fs, fi, content, inside_autodoc, type, name, body,
                   lines, autodocs, wi, out, status, err>>

\* parse_file up to its loop: the locals are set and the file is read.
OpenFile ==
    /\ pc = "file"
    /\ fi <= Len(args.infile)
    /\ args.infile[fi] \in DOMAIN fs
    /\ inside_autodoc' = FALSE
    /\ name' = ""
    /\ content' = fs[args.infile[fi]]
    /\ pc' = "while"
    /\ UNCHANGED <<argv, fs, args, fi, type, body, lines, autodocs, wi, out,
                   status, err>>

\* OpenFails skipping the file it cannot open: parse_file returns and
\* __main__ goes on with the next file.
OpenFailsSkipsFile ==
    /\ pc = "file"
    /\ fi <= Len(args.infile)
    /\ args.infile[fi] \notin DOMAIN fs
    /\ fi' = fi + 1
    /\ UNCHANGED <<argv, fs, args, pc, content, inside_autodoc, type, name,
                   body, lines, autodocs, wi, out, status, err>>

\* open() raises IOError: nothing catches it, the interpreter prints a
\* traceback on stderr and exits with status 1.
OpenFails ==
    /\ pc = "file"
    /\ fi <= Len(args.infile)
    /\ args.infile[fi] \notin DOMAIN fs
    /\ err' = "IOError"
    /\ status' = 1
    /\ pc' = "exit"
    /\ UNCHANGED <<argv, fs, args, fi, content, inside_autodoc, type, name,
                   body, lines, autodocs, wi, out>>

\* Filter without its second exclusion: -o no longer drops other blocks.
FilterNoObsoleteExclusion(a, t) ==
    IF a.i /\ t # "i" THEN FALSE
    ELSE \/ a.i /\ t = "i"
         \/ a.o /\ t = "o"
         \/ a.u /\ t = "f"
         \/ t = "*"

\* Filter collecting future blocks whether or not -u is given.
FilterKeepsFuture(a, t) ==
    IF a.i /\ t # "i" THEN FALSE
    ELSE IF a.o /\ t # "o" THEN FALSE
    ELSE \/ a.i /\ t = "i"
         \/ a.o /\ t = "o"
         \/ t = "f"
         \/ t = "*"

\* Filter with the inclusions tried before the exclusions.
FilterInclusionFirst(a, t) ==
    IF a.i /\ t = "i" THEN TRUE
    ELSE IF a.o /\ t = "o" THEN TRUE
    ELSE IF a.i /\ t # "i" THEN FALSE
    ELSE IF a.o /\ t # "o" THEN FALSE
    ELSE (a.u /\ t = "f") \/ t = "*"

\* The filters with -o giving way to -i when both are set.
FilterInternalWins(a, t) ==
    IF a.i /\ t # "i" THEN FALSE
    ELSE IF a.o /\ ~a.i /\ t # "o" THEN FALSE
    ELSE \/ a.i /\ t = "i"
         \/ a.o /\ t = "o"
         \/ a.u /\ t = "f"
         \/ t = "*"

\* The filters of parse_file applied to a header of classification t:
\* the value of inside_autodoc afterwards (it was False before).
Filter(a, t) ==
    IF a.i /\ t # "i" THEN FALSE
    ELSE IF a.o /\ t # "o" THEN FALSE
    ELSE \/ a.i /\ t = "i"
         \/ a.o /\ t = "o"
         \/ a.u /\ t = "f"
         \/ t = "*"

\* One turn of the while loop outside a block, a header found: the text
\* up to the end of the header is dropped and the filters decide.
HeaderFound ==
    /\ pc = "while"
    /\ ~inside_autodoc
    /\ LET m == HeadSearch(content)
       IN /\ m.ok
          /\ type' = m.type
          /\ name' = m.name
          /\ content' = From(content, m.end)
          /\ inside_autodoc' = Filter(args, m.type)
    /\ UNCHANGED <<argv, fs, args, pc, fi, body, lines, autodocs, wi, out,
                   status, err>>

\* One turn of the while loop outside a block, no header left: break,
\* parse_file returns and __main__ goes to the next file.
NoHeader ==
    /\ pc = "while"
    /\ ~inside_autodoc
    /\ ~HeadSearch(content).ok
    /\ fi' = fi + 1
    /\ pc' = "file"
    /\ UNCHANGED <<argv, fs, args, content, inside_autodoc, type, name, body,
                   lines, autodocs, wi, out, status, err>>

\* One turn of the while loop inside a block, up to the for loop: the body
\* is emptied and the text is split in lines.
BeginCollect ==
    /\ pc = "while"
    /\ inside_autodoc
    /\ body' = ""
    /\ lines' = SplitLines(content)
    /\ pc' = "for"
    /\ UNCHANGED <<argv, fs, args, fi, content, inside_autodoc, type, name,
                   autodocs, wi, out, status, err>>

\* Transform without its second replacement.
TransformOpenOnly(s, a) ==
    IF ~a.c THEN Replace(s, "\\*", "/*") ELSE s

\* The replacements of parse_file on the content of a body line.
Transform(s, a) ==
    IF ~a.c THEN Replace(Replace(s, "\\*", "/*"), "*\\", "*/") ELSE s

\* TrailerLineStep putting the entry at the front of the list.
TrailerLineStepPrepends ==
    /\ pc = "for"
    /\ lines # <<>>
    /\ TailMatch(Head(lines))
    /\ autodocs' = <<[name |-> name, body |-> body]>> \o autodocs
    /\ inside_autodoc' = FALSE
    /\ pc' = "while"
    /\ UNCHANGED <<argv, fs, args, fi, content, type, name, body, lines, wi,
                   out, status, err>>

\* The for loop at a trailer line: the entry is appended, and break.
TrailerLineStep ==
    /\ pc = "for"
    /\ lines # <<>>
    /\ TailMatch(Head(lines))
    /\ autodocs' = Append(autodocs, [name |-> name, body |-> body])
    /\ inside_autodoc' = FALSE
    /\ pc' = "while"
    /\ UNCHANGED <<argv, fs, args, fi, content, type, name, body, lines, wi,
                   out, status, err>>

\* A for loop in which every line that is not a trailer adds to the body.
OtherLineStepKeepsAll ==
    /\ pc = "for"
    /\ lines # <<>>
    /\ ~TailMatch(Head(lines))
    /\ body' = IF BodyMatch(Head(lines))
               THEN body \o Transform(BodyGroup(Head(lines)), args)
               ELSE body \o Transform(Head(lines), args)
    /\ lines' = Tail(lines)
    /\ UNCHANGED <<argv, fs, args, pc, fi, content, inside_autodoc, type,
                   name, autodocs, wi, out, status, err>>

\* The for loop at any other line: a body line adds to the body.
OtherLineStep ==
    /\ pc = "for"
    /\ lines # <<>>
    /\ ~TailMatch(Head(lines))
    /\ body' = IF BodyMatch(Head(lines))
               THEN body \o Transform(BodyGroup(Head(lines)), args)
               ELSE body
    /\ lines' = Tail(lines)
    /\ UNCHANGED <<argv, fs, args, pc, fi, content, inside_autodoc, type,
                   name, autodocs, wi, out, status, err>>

\* The for loop has no line left and did not break: the while loop takes
\* its next turn, with inside_autodoc and content as they were.
LinesExhausted ==
    /\ pc = "for"
    /\ lines = <<>>
    /\ pc' = "while"
    /\ UNCHANGED <<argv, fs, args, fi, content, inside_autodoc, type, name,
                   body, lines, autodocs, wi, out, status, err>>

\* __main__ after its loop over the files: list.sort().
Sort ==
    /\ pc = "file"
    /\ fi > Len(args.infile)
    /\ autodocs' = SortDocs(autodocs)
    /\ pc' = "toc"
    /\ UNCHANGED <<argv, fs, args, fi, content, inside_autodoc, type, name,
                   body, lines, wi, out, status, err>>

\* __main__: write_toc unless -I was given.
Toc ==
    /\ pc = "toc"
    /\ out' = IF ~args.I THEN out \o WriteToc(autodocs, args) ELSE out
    /\ wi' = 1
    /\ pc' = "write"
    /\ UNCHANGED <<argv, fs, args, fi, content, inside_autodoc, type, name,
                   body, lines, autodocs, status, err>>

\* A loop of write_autodocs that takes each entry out of the list.
WriteDocConsumes ==
    /\ pc = "write"
    /\ wi <= Len(autodocs)
    /\ out' = out \o Write(autodocs[wi], args)
    /\ autodocs' = Tail(autodocs)
    /\ UNCHANGED <<argv, fs, args, pc, fi, content, inside_autodoc, type,
                   name, body, lines, wi, status, err>>

\* One turn of the loop of write_autodocs: doc.write().
WriteDoc ==
    /\ pc = "write"
    /\ wi <= Len(autodocs)
    /\ out' = out \o Write(autodocs[wi], args)
    /\ wi' = wi + 1
    /\ UNCHANGED <<argv, fs, args, pc, fi, content, inside_autodoc, type,
                   name, body, lines, autodocs, status, err>>

\* write_autodocs is done: the script ends, with status 0.
Finish ==
    /\ pc = "write"
    /\ wi > Len(autodocs)
    /\ status' = 0
    /\ pc' = "exit"
    /\ UNCHANGED <<argv, fs, args, fi, content, inside_autodoc, type, name,
                   body, lines, autodocs, wi, out, err>>

Next ==
    \/ ParseArgsFail
    \/ ParseArgsRaise
    \/ ParseArgsOk
    \/ OpenFile
    \/ OpenFails
    \/ HeaderFound
    \/ NoHeader
    \/ BeginCollect
    \/ TrailerLineStep
    \/ OtherLineStep
    \/ LinesExhausted
    \/ Sort
    \/ Toc
    \/ WriteDoc
    \/ Finish

Spec == Init /\ [][Next]_vars

(***************************************************************************)
(* Vocabulary of the properties                                            *)
(***************************************************************************)

EndsWith(s, t) == Len(s) >= Len(t) /\ SubSeq(s, Len(s) - Len(t) + 1, Len(s)) = t

Contains(s, t) == \E i \in 1..Len(s) : HasAt(s, i, t)

\* The parser is SEARCHING at the top of its loop with a header ahead.
AtHeader == pc = "while" /\ ~inside_autodoc /\ HeadSearch(content).ok

\* The step about to be taken is doc.write() of entry wi.
AtWrite == pc = "write" /\ wi <= Len(autodocs)

\* Every file was parsed and the script did not fail.
ParseDone == pc \in {"toc", "write"} \/ (pc = "exit" /\ status = 0)

\* The filtering policy as the specification lists it: seven rules, the
\* first that applies decides.
Policy(a, t) ==
    CASE a.i /\ t # "i" -> FALSE
      [] a.o /\ t # "o" -> FALSE
      [] a.i /\ t = "i" -> TRUE
      [] a.o /\ t = "o" -> TRUE
      [] a.u /\ t = "f" -> TRUE
      [] t = "*"        -> TRUE
      [] OTHER          -> FALSE

\* The kinds of line of a well-formed text.
IsHeaderLine(l) ==
    HeadMatchAt(l, 1).ok /\ ~HeadSearch(From(l, HeadMatchAt(l, 1).end)).ok

IsTrailerLine(l) == TailMatch(l)

IsBodyLine(l) == BodyMatch(l) /\ ~TailMatch(l)

IsOtherLine(l) ==
    ~HeadSearch(l).ok /\ ~IsTrailerLine(l) /\ StarRun(l, 1) = 0

\* A text is well formed when its lines are blocks, each a header line,
\* one or more body lines and a trailer line, with only other lines
\* between the blocks.  st: 0 outside a block, 1 after a header, 2 after a
\* body line.
RECURSIVE WellFormedFrom(_, _)
WellFormedFrom(ls, st) ==
    IF ls = <<>> THEN st = 0
    ELSE LET l == Head(ls)
         IN CASE st = 0 /\ IsHeaderLine(l) -> WellFormedFrom(Tail(ls), 1)
              [] st = 0 /\ IsOtherLine(l) -> WellFormedFrom(Tail(ls), 0)
              [] st \in {1, 2} /\ IsBodyLine(l) -> WellFormedFrom(Tail(ls), 2)
              [] st = 2 /\ IsTrailerLine(l) -> WellFormedFrom(Tail(ls), 0)
              [] OTHER -> FALSE

WellFormed(text) == WellFormedFrom(SplitLines(text), 0)

\* The headers of a text, in order: classification and name of each.
RECURSIVE HeadersOf(_)
HeadersOf(ls) ==
    IF ls = <<>> THEN <<>>
    ELSE (IF HeadMatchAt(Head(ls), 1).ok
          THEN <<[type |-> HeadMatchAt(Head(ls), 1).type,
                  name |-> HeadMatchAt(Head(ls), 1).name]>>
          ELSE <<>>) \o HeadersOf(Tail(ls))

\* The number of trailer lines of a text.
TrailerCount(text) ==
    Cardinality({k \in 1..Len(SplitLines(text)) : TailMatch(SplitLines(text)[k])})

AllReadable == \A k \in 1..Len(args.infile) : args.infile[k] \in DOMAIN fs

\* The blocks of all the files named on the command line, in order.
RECURSIVE BlocksFrom(_)
BlocksFrom(k) ==
    IF k > Len(args.infile) THEN <<>>
    ELSE HeadersOf(SplitLines(fs[args.infile[k]])) \o BlocksFrom(k + 1)

RECURSIVE TrailersFrom(_)
TrailersFrom(k) ==
    IF k > Len(args.infile) THEN 0
    ELSE TrailerCount(fs[args.infile[k]]) + TrailersFrom(k + 1)

\* Every input is well formed and the names of all blocks differ.
WellFormedInput ==
    /\ AllReadable
    /\ \A k \in 1..Len(args.infile) : WellFormed(fs[args.infile[k]])
    /\ \A i, j \in 1..Len(BlocksFrom(1)) :
          i # j => BlocksFrom(1)[i].name # BlocksFrom(1)[j].name

NoFilter == ~args.i /\ ~args.o /\ ~args.u

NamesOf(docs) == {docs[k].name : k \in 1..Len(docs)}

\* Ascending by lower-cased name.
SortedByLowerName(docs) ==
    \A i, j \in 1..Len(docs) :
        i < j => ~StrLess(Lower(docs[j].name), Lower(docs[i].name))

\* The last but one piece of the body split on line breaks: the final body
\* line of an entry whose body ends with a line break.
LastBodyLine(doc) == Split(doc.body)[Len(Split(doc.body)) - 1]

HasBodyLines(doc) == Len(Split(doc.body)) >= 2

(***************************************************************************)
(* C1..C10                                                                 *)
(***************************************************************************)

\* C1: on every header match, whatever -i, -o, -u and the classification
\* character are, the parser is COLLECTING afterwards exactly when the
\* first applicable rule of the seven-rule priority list says collect, and
\* SEARCHING otherwise.
C1_FilterPolicy ==
    [][AtHeader => inside_autodoc' = Policy(args, HeadSearch(content).type)]_vars

\* A future block was collected under -u alone.
C1_Witness ==
    pc = "while" /\ inside_autodoc /\ type = "f" /\ args.u /\ ~args.i /\ ~args.o

\* C2 (the claim): when the lines run out while a block is being collected
\* (no trailer line was met), the block is dropped, no entry is appended
\* and the scan of this input ends: parse_file returns.
C2_ExhaustedEndsScan ==
    [][(pc = "for" /\ lines = <<>>) => (pc' = "file" /\ autodocs' = autodocs)]_vars

\* C3 (the claim): every trailer line closes at most one block, so the
\* collection never holds more entries than the inputs hold trailer lines.
C3_OneEntryPerTrailer ==
    (pc \in {"while", "for"} \/ ParseDone) /\ AllReadable
        => Len(autodocs) <= TrailersFrom(1)

\* C4 (the claim): well-formed input, distinct names, no filter option:
\* after the sort every block has exactly one entry, and the entries are
\* in ascending order of lower-cased name; all of them are rendered.
C4_AllBlocksListed ==
    (ParseDone /\ NoFilter /\ WellFormedInput) =>
        /\ Len(autodocs) = Len(BlocksFrom(1))
        /\ NamesOf(autodocs) = NamesOf(BlocksFrom(1))
        /\ SortedByLowerName(autodocs)
        /\ pc = "exit" => wi = Len(BlocksFrom(1)) + 1

\* C4 (amended): well-formed input, distinct names, no filter option:
\* after the sort there is exactly one entry for every block whose
\* classification character is "*" and none for any other block, and the
\* entries are in ascending order of lower-cased name; all are rendered.
C4_StarBlocksListed ==
    (ParseDone /\ NoFilter /\ WellFormedInput) =>
        LET stars == SelectSeq(BlocksFrom(1), LAMBDA b : b.type = "*")
        IN /\ Len(autodocs) = Len(stars)
           /\ NamesOf(autodocs) = NamesOf(stars)
           /\ SortedByLowerName(autodocs)
           /\ pc = "exit" => wi = Len(stars) + 1

\* Two well-formed blocks found as Zebra, apple were rendered as apple,
\* Zebra.
C4_Witness ==
    /\ pc = "exit" /\ status = 0 /\ NoFilter /\ WellFormedInput
    /\ Len(BlocksFrom(1)) = 2
    /\ BlocksFrom(1)[1].name = "Zebra"
    /\ Len(autodocs) = 2
    /\ autodocs[1].name = "apple" /\ autodocs[2].name = "Zebra"
    /\ wi = 3

\* C5 (the claim): a well-formed block tagged i has an entry if and only
\* if -i is given or neither -i nor -o is given.
C5_InternalIffNoRestriction ==
    (ParseDone /\ WellFormedInput) =>
        \A k \in 1..Len(BlocksFrom(1)) :
            BlocksFrom(1)[k].type = "i" =>
                (BlocksFrom(1)[k].name \in NamesOf(autodocs)
                    <=> (args.i \/ ~(args.i \/ args.o)))

\* C5 (amended): a well-formed block tagged i has an entry if and only if
\* -i is given and -o is not, whatever -u is.
C5_InternalIffOnlyInternal ==
    (ParseDone /\ WellFormedInput) =>
        \A k \in 1..Len(BlocksFrom(1)) :
            BlocksFrom(1)[k].type = "i" =>
                (BlocksFrom(1)[k].name \in NamesOf(autodocs)
                    <=> (args.i /\ ~args.o))

\* An i block has its entry under -i -u, beside a block that has none.
C5_Witness ==
    /\ ParseDone /\ WellFormedInput /\ args.i /\ args.u /\ ~args.o
    /\ Len(BlocksFrom(1)) = 2
    /\ BlocksFrom(1)[2].type = "i"
    /\ NamesOf(autodocs) = {BlocksFrom(1)[2].name}

\* C6 (the claim): every entry of the collection has a non-empty name.
C6_NameNonEmpty == \A k \in 1..Len(autodocs) : autodocs[k].name # ""

\* C7: the sort leaves a permutation of the collection, in ascending order
\* of lower-cased name, and entries whose names are equal ignoring case
\* keep their order: for every lower-cased name, the entries of that name
\* are the same sequence before and after.
C7_SortStable ==
    [][(pc = "file" /\ pc' = "toc") =>
          /\ Len(autodocs') = Len(autodocs)
          /\ SortedByLowerName(autodocs')
          /\ \A n \in NamesOf(autodocs) \cup NamesOf(autodocs') :
                SelectSeq(autodocs', LAMBDA e : Lower(e.name) = Lower(n))
                    = SelectSeq(autodocs, LAMBDA e : Lower(e.name) = Lower(n))
      ]_vars

\* Found as Zebra, Apple, apple; sorted as Apple, apple, Zebra.
C7_Witness ==
    /\ pc = "toc"
    /\ autodocs = <<[name |-> "Apple", body |-> "2\n"],
                    [name |-> "apple", body |-> "3\n"],
                    [name |-> "Zebra", body |-> "1\n"]>>

\* C8 (the claim): with form feeds, the final body line of an entry, when
\* it is not empty and short enough not to be split, is written with no
\* line break after it: the page-break marker follows its last character.
C8_LastLineNoBreak ==
    [][(/\ AtWrite /\ ~args.f /\ HasBodyLines(autodocs[wi])
        /\ LastBodyLine(autodocs[wi]) # ""
        /\ Len(LastBodyLine(autodocs[wi])) < args.l)
          => EndsWith(out', LastBodyLine(autodocs[wi]) \o "\f")]_vars

\* C8 (amended): every body line, the final one included, is written with
\* a line break after it; what is written without a line break is the
\* piece after the last line break of the body, which is empty.  So the
\* text of an entry with body lines ends with a line break, then the
\* page-break marker when form feeds are on; a final body line shorter
\* than the line width is directly followed by that line break.
C8_LastLineThenBreak ==
    [][(AtWrite /\ HasBodyLines(autodocs[wi])) =>
          /\ Split(autodocs[wi].body)[Len(Split(autodocs[wi].body))] = ""
          /\ EndsWith(out', "\n" \o (IF args.f THEN "" ELSE "\f"))
          /\ Len(LastBodyLine(autodocs[wi])) < args.l =>
                EndsWith(out', LastBodyLine(autodocs[wi]) \o "\n"
                               \o (IF args.f THEN "" ELSE "\f"))]_vars

\* The first scenario of the specification was rendered: the second body
\* line, a line break, the page-break marker.
C8_Witness ==
    pc = "exit" /\ status = 0 /\ EndsWith(out, "   second line\n\f")

\* What the claim C9 says is written for one body line.
C9_Line(line, width) ==
    IF Len(line) < width THEN line \o "\n"
    ELSE SubSeq(line, 1, width - 1) \o "\n"
         \o SubSeq(line, width, Len(line)) \o "\n"

RECURSIVE C9_Lines(_, _)
C9_Lines(ls, width) ==
    IF ls = <<>> THEN ""
    ELSE C9_Line(Head(ls), width) \o C9_Lines(Tail(ls), width)

\* C9: with a line width of 1 or more, autodoc.write writes the name and
\* a line break, then every body line but the last piece: unchanged plus a
\* line break when shorter than the width, and otherwise its first
\* width-1 characters, a line break, all the rest, a line break (one split
\* only); then the last piece and the optional page-break marker.
C9_WrapOnce ==
    [][(AtWrite /\ args.l >= 1) =>
          LET ls == Split(autodocs[wi].body)
          IN out' = out \o autodocs[wi].name \o "\n"
                    \o C9_Lines(SubSeq(ls, 1, Len(ls) - 1), args.l)
                    \o ls[Len(ls)] \o FormFeed(args)]_vars

\* Width 10: the 15-character line was split once, after 9 characters;
\* and a line of exactly 4 characters was split under width 4.
C9_Witness ==
    \/ args.l = 10 /\ Contains(out, "\n012345678\n9ABCDE\n")
    \/ args.l = 4 /\ Contains(out, "\nabc\nd\n") /\ Contains(out, "\nabc\nabc\nd\n")

\* What the claim C10 calls a failing parse_args: an option that is not
\* recognised (or lacks its value), a line width that is not a number, or
\* no input file.
C10_BadCommandLine ==
    LET g == GetOpt(<<>>, argv)
    IN \/ g.error
       \/ \E k \in 1..Len(g.opts) : g.opts[k][1] = "-l" /\ ~IsInt(g.opts[k][2])
       \/ g.files = <<>>

\* C10 (the claim): when parse_args fails, the program prints the usage
\* text and nothing else, ends with a status that is not 0, and parses
\* nothing.
C10_BadArgsUsage ==
    (pc = "exit" /\ C10_BadCommandLine) =>
        out = UsageText /\ status # 0 /\ autodocs = <<>>

(***************************************************************************)
(* C11..C20                                                                *)
(***************************************************************************)

\* C11: when a file named on the command line cannot be opened, no part
\* of the document is ever written (no table of contents, no entry), even
\* with entries of earlier files in the collection: the run never gets to
\* the sort or the renderer and ends with the uncaught IOError and a
\* status that is not 0.  Whatever is written of the document is written
\* after every file was opened and parsed.
C11_NoOutputOnUnreadable ==
    /\ (pc # "args" /\ args.infile # <<>> /\ ~AllReadable) =>
          /\ out = ""
          /\ pc \in {"file", "while", "for", "exit"}
          /\ pc = "exit" => (err = "IOError" /\ status # 0)
    /\ (out # "" /\ out # UsageText) =>
          (AllReadable /\ fi > Len(args.infile) /\ pc \in {"write", "exit"})

\* The second file could not be opened after the first gave an entry.
C11_Witness ==
    /\ pc = "exit" /\ err = "IOError" /\ status = 1
    /\ Len(autodocs) = 1 /\ fi = 2 /\ out = ""

\* The blocks of files lo..hi of the command line, in order.
RECURSIVE BlocksOfFiles(_, _)
BlocksOfFiles(lo, hi) ==
    IF lo > hi THEN <<>>
    ELSE HeadersOf(SplitLines(fs[args.infile[lo]])) \o BlocksOfFiles(lo + 1, hi)

\* The names of the blocks among bs that the policy collects, in order.
RECURSIVE CollectedNames(_)
CollectedNames(bs) ==
    IF bs = <<>> THEN <<>>
    ELSE (IF Policy(args, Head(bs).type) THEN <<Head(bs).name>> ELSE <<>>)
         \o CollectedNames(Tail(bs))

RECURSIVE NameSeq(_)
NameSeq(docs) ==
    IF docs = <<>> THEN <<>> ELSE <<Head(docs).name>> \o NameSeq(Tail(docs))

\* Before the sort the entries are in discovery order: with well-formed
\* input, the names are the first names of the collected blocks, file after
\* file, and between two files they are those of the files already parsed.
C12_DiscoveryOrder ==
    (pc \in {"file", "while", "for"} /\ WellFormedInput) =>
        /\ Len(autodocs) <= Len(CollectedNames(BlocksFrom(1)))
        /\ NameSeq(autodocs)
             = SubSeq(CollectedNames(BlocksFrom(1)), 1, Len(autodocs))
        /\ pc = "file" =>
             NameSeq(autodocs) = CollectedNames(BlocksOfFiles(1, fi - 1))

\* C12: parsing is append-only and in order.  A step of the parser leaves
\* the collection as it is or appends one entry to it; the files are
\* taken in command-line order, the text parsed is that of file fi, and
\* fi only moves to the next file when the scan of the current one ends;
\* and the collection is in discovery order.
C12_AppendOnlyInOrder ==
    [][(pc \in {"file", "while", "for"}) =>
          (/\ C12_DiscoveryOrder
           /\ (pc' # "toc") =>
                 (/\ \/ autodocs' = autodocs
                     \/ /\ Len(autodocs') = Len(autodocs) + 1
                        /\ SubSeq(autodocs', 1, Len(autodocs)) = autodocs
                  /\ fi' \in {fi, fi + 1}
                  /\ (fi' = fi + 1) => (pc = "while" /\ pc' = "file")
                  /\ (pc = "file" /\ pc' = "while") =>
                        (content' = fs[args.infile[fi]])))
      ]_vars

\* Both files are parsed, the entries are as found: Zebra, then apple.
C12_Witness ==
    /\ pc = "file" /\ fi = 3
    /\ NameSeq(autodocs) = <<"Zebra", "apple">>
    /\ autodocs[1].body = "1\n" /\ autodocs[2].body = "2\n"

\* The leading run of "*" removed from a line.
RECURSIVE C13_Strip(_)
C13_Strip(l) == IF Ch(l, 1) = "*" THEN C13_Strip(From(l, 2)) ELSE l

\* What the claim C13 says of the escapes, character by character: a
\* backslash next to a "*" (before it or after it) becomes a slash, and
\* nothing else changes.
RECURSIVE C13_From(_, _)
C13_From(s, i) ==
    IF i > Len(s) THEN ""
    ELSE (IF Ch(s, i) = "\\" /\ (Ch(s, i + 1) = "*" \/ Ch(s, i - 1) = "*")
          THEN "/" ELSE Ch(s, i))
         \o C13_From(s, i + 1)

C13_Escaped(s) == C13_From(s, 1)

\* C13: what a body line adds to the body is the line without its leading
\* run of "*"; without -c every backslash-star in it has become slash-star
\* and every star-backslash star-slash, and with -c it is unchanged.  The
\* line \*text*\ is rendered as /*text*/ without -c and as it is with -c.
C13_Escapes ==
    /\ [][(/\ pc = "for" /\ lines # <<>>
           /\ ~TailMatch(Head(lines)) /\ BodyMatch(Head(lines)))
             => body' = body \o (IF args.c THEN C13_Strip(Head(lines))
                                 ELSE C13_Escaped(C13_Strip(Head(lines))))]_vars
    /\ [](((/\ pc = "exit" /\ status = 0 /\ args.infile = <<"a.c">>
            /\ fs["a.c"] = Block("*", "Foo", <<"\\*text*\\">>)))
             => out = WriteToc(autodocs, args) \o "Foo\n"
                      \o (IF args.c THEN "\\*text*\\" ELSE "/*text*/")
                      \o "\n" \o FormFeed(args))

\* The line \*text*\ was stored and rendered as /*text*/.
C13_Witness ==
    /\ pc = "exit" /\ status = 0 /\ ~args.c
    /\ autodocs = <<[name |-> "Foo", body |-> "/*text*/\n"]>>
    /\ Contains(out, "Foo\n/*text*/\n")

\* One name per line.
RECURSIVE C14_Names(_)
C14_Names(docs) ==
    IF docs = <<>> THEN ""
    ELSE Head(docs).name \o "\n" \o C14_Names(Tail(docs))

\* The entries as autodoc.write writes them, in the order of the list.
RECURSIVE C14_Entries(_)
C14_Entries(docs) ==
    IF docs = <<>> THEN ""
    ELSE Write(Head(docs), args) \o C14_Entries(Tail(docs))

\* C14: without -I the output is the header line, a blank line, the name
\* of every entry of the sorted collection on a line of its own, two line
\* breaks (and the optional page-break marker), then the entries in that
\* same order; with -I it is the entries only, so it starts with the name
\* of the first entry.
C14_TableOfContents ==
    (pc = "exit" /\ status = 0) =>
        IF ~args.I
        THEN out = "TABLE OF CONTENTS\n" \o "\n" \o C14_Names(autodocs)
                   \o "\n\n" \o (IF args.f THEN "" ELSE "\f")
                   \o C14_Entries(autodocs)
        ELSE /\ out = C14_Entries(autodocs)
             /\ autodocs # <<>> => HasAt(out, 1, autodocs[1].name \o "\n")
             /\ ~HasAt(out, 1, "TABLE OF CONTENTS\n\n")

\* A table of contents of two names, in sorted order.
C14_Witness ==
    /\ pc = "exit" /\ status = 0 /\ ~args.I /\ ~args.f
    /\ HasAt(out, 1, "TABLE OF CONTENTS\n\napple\nZebra\n\n\n\fapple\n")

\* The number of occurrences of character c in s.
RECURSIVE CountChar(_, _)
CountChar(s, c) ==
    IF s = "" THEN 0
    ELSE (IF Ch(s, 1) = c THEN 1 ELSE 0) + CountChar(From(s, 2), c)

\* C15: without -f the renderer writes one page-break marker after the
\* table of contents (when there is one) and one at the end of every
\* entry: after k entries the output holds k markers, and one more with a
\* table of contents, and it ends with a marker; with -f it holds none.
C15_PageBreaks ==
    (pc = "write" \/ (pc = "exit" /\ status = 0)) =>
        IF args.f THEN CountChar(out, "\f") = 0
        ELSE /\ CountChar(out, "\f")
                  = (wi - 1) + (IF args.I THEN 0 ELSE 1)
             /\ pc = "exit" => wi - 1 = Len(autodocs)
             /\ out # "" => EndsWith(out, "\f")
             /\ (wi = 1 /\ ~args.I) => EndsWith(out, "\n\n\f")

\* Three entries and a table of contents: four markers.
C15_Witness ==
    /\ pc = "exit" /\ status = 0 /\ ~args.f /\ ~args.I
    /\ Len(autodocs) = 3 /\ CountChar(out, "\f") = 4

\* What rendering the collection docs under configuration a has written
\* once the table of contents and the first k entries are done.
RECURSIVE C16_Rendered(_, _, _)
C16_Rendered(docs, a, k) ==
    IF k = 0 THEN (IF ~a.I THEN WriteToc(docs, a) ELSE "")
    ELSE C16_Rendered(docs, a, k - 1) \o Write(docs[k], a)

\* C16: every step of the rendering leaves the collection and the
\* configuration as they were, and what has been written after it is what
\* rendering that collection under that configuration from the start
\* writes up to the same point: a second rendering of the collection the
\* first one left behind writes the same bytes.
C16_Repeatable ==
    [][(pc \in {"toc", "write"}) =>
          (/\ autodocs' = autodocs
           /\ args' = args
           /\ out' = C16_Rendered(autodocs, args,
                        IF pc = "toc" THEN 0
                        ELSE IF wi <= Len(autodocs) THEN wi ELSE wi - 1))]_vars

\* Two entries and a table of contents were rendered, and rendering the
\* collection again gives the output.
C16_Witness ==
    /\ pc = "exit" /\ status = 0 /\ ~args.I
    /\ NameSeq(autodocs) = <<"apple", "Zebra">>
    /\ out = C16_Rendered(autodocs, args, 2)
    /\ Contains(out, "Zebra\n2\n")

\* The patterns of C17, read off the line: a trailer-pattern line starts
\* with three markers, a body-pattern line with a marker and ends with a
\* line break.
C17_TrailerPattern(l) == Len(l) >= 3 /\ SubSeq(l, 1, 3) = "***"

C17_BodyPattern(l) == Len(l) >= 2 /\ Ch(l, 1) = "*" /\ Ch(l, Len(l)) = "\n"

\* The body C17 gives to a block whose header is followed by the lines ls.
RECURSIVE C17_Body(_, _)
C17_Body(ls, a) ==
    IF ls = <<>> \/ C17_TrailerPattern(Head(ls)) THEN ""
    ELSE (IF C17_BodyPattern(Head(ls))
          THEN (IF a.c THEN C13_Strip(Head(ls))
                ELSE C13_Escaped(C13_Strip(Head(ls))))
          ELSE "")
         \o C17_Body(Tail(ls), a)

\* C17: an entry is appended at a trailer-pattern line, and its body is
\* the concatenation, in order, of the transformed contents of the
\* body-pattern lines between the header and the first trailer-pattern
\* line after it; the rest of the header line and the lines of neither
\* pattern add nothing, and the trailer test comes first.
C17_BodyIsBodyLines ==
    [][(pc = "for" /\ lines # <<>>) =>
          (IF C17_TrailerPattern(Head(lines))
           THEN /\ \E k \in 1..Len(SplitLines(content)) :
                        C17_TrailerPattern(SplitLines(content)[k])
                /\ autodocs' = Append(autodocs,
                       [name |-> name,
                        body |-> C17_Body(SplitLines(content), args)])
           ELSE /\ autodocs' = autodocs
                /\ body' = body \o C17_Body(<<Head(lines)>>, args))]_vars

\* An entry whose block held a body line and a line of neither pattern.
C17_Witness ==
    /\ pc = "exit" /\ status = 0
    /\ fs["a.c"] = HeaderLine("*", "Foo") \o "*x\n" \o "y\n" \o TrailerLine
    /\ autodocs = <<[name |-> "Foo", body |-> "x\n"]>>

\* C18: with -i and -o both set no header of any classification starts a
\* block, so no line is ever collected and the collection stays empty,
\* with or without -u.
C18_BothFiltersCollectNothing ==
    (args.i /\ args.o) =>
        /\ ~inside_autodoc
        /\ pc # "for"
        /\ autodocs = <<>>
        /\ (pc = "exit" /\ status = 0) =>
              out = C16_Rendered(<<>>, args, 0)

\* A file with an i block and an o block was parsed under -i -o -u and
\* nothing was collected.
C18_Witness ==
    /\ args.i /\ args.o /\ args.u
    /\ pc = "exit" /\ status = 0 /\ autodocs = <<>>
    /\ fs["a.c"] = ClassBlocks(<<"i", "o">>, 1)

\* C19: the body of every entry, and the body being collected, is empty
\* or ends with a line break; so the last element of the body split on
\* line breaks is the empty string, and the entry as written ends with a
\* line break (before the optional marker) and holds a line break for the
\* name and at least one for every body line.
C19_BodyEndsWithBreak ==
    /\ pc = "for" => (body = "" \/ Ch(body, Len(body)) = "\n")
    /\ \A k \in 1..Len(autodocs) :
          LET b == autodocs[k].body
              ls == Split(b)
              w == Write(autodocs[k], args)
          IN /\ b = "" \/ Ch(b, Len(b)) = "\n"
             /\ ls[Len(ls)] = ""
             /\ EndsWith(w, "\n" \o FormFeed(args))
             /\ CountChar(w, "\n") >= 1 + CountChar(b, "\n")

\* An entry of two body lines, each written with its line break.
C19_Witness ==
    /\ pc = "exit" /\ status = 0 /\ args.l = DefaultWidth
    /\ autodocs = <<[name |-> "Foo", body |-> "abc\nabcd\n"]>>
    /\ Contains(out, "Foo\nabc\nabcd\n")

\* The ways of writing a line with no character lost or written twice:
\* whole, or cut in two at any place, each piece followed by a line break.
C20_Pieces(line) ==
    {line \o "\n"}
    \cup {SubSeq(line, 1, j) \o "\n" \o SubSeq(line, j + 1, Len(line)) \o "\n" :
            j \in 0..Len(line)}

\* r is the lines ls written one after the other, each in one of these ways.
RECURSIVE C20_Matches(_, _)
C20_Matches(r, ls) ==
    IF ls = <<>> THEN r = ""
    ELSE \E p \in C20_Pieces(Head(ls)) :
            /\ HasAt(r, 1, p)
            /\ C20_Matches(From(r, Len(p) + 1), Tail(ls))

\* s without its line breaks.
C20_Unbroken(s) == Replace(s, "\n", "")

\* C20: whatever the integer given to -l, zero and negative ones
\* included, the entry about to be written comes out as its name, then
\* each body line whole or in two pieces that put together are the line,
\* then the optional marker: without the line breaks the written body is
\* the stored body without its own.
C20_NoCharacterLost ==
    (pc = "write" /\ wi <= Len(autodocs)) =>
        LET d == autodocs[wi]
            ls == Split(d.body)
            w == Write(d, args)
            r == SubSeq(w, Len(d.name) + 2, Len(w) - Len(FormFeed(args)))
        IN /\ HasAt(w, 1, d.name \o "\n")
           /\ C20_Matches(r, SubSeq(ls, 1, Len(ls) - 1))
           /\ C20_Unbroken(r) = C20_Unbroken(d.body)

\* Under -l-3 each of the lines abc and abcd was written as an empty piece
\* and the whole line.
C20_Witness ==
    /\ pc = "exit" /\ status = 0 /\ args.l = -3
    /\ autodocs = <<[name |-> "Foo", body |-> "abc\nabcd\n"]>>
    /\ Contains(out, "Foo\n\nabc\n\nabcd\n")

====
